---- MODULE Spec2Model ----
(***************************************************************************)
(* Impact-consequence engine of src/app.py: the population raster query    *)
(* (get_population_in_radius), the effects and casualty computation        *)
(* (calculate_impact_casualties) and the /calculate_casualties endpoint.   *)
(*                                                                         *)
(* Numbers.  Positions (lat, lon, cell centres, window bounds) are whole   *)
(* degrees.  Lengths are whole km; radius_km / 111.0 is the whole number   *)
(* of degrees in it, and the distance test is made in those degrees.       *)
(* cos(lat) is a rational num/den taken from a table of the latitudes the  *)
(* model queries.  Real arithmetic is exact; float rounding is not         *)
(* modelled, except that cos(90 deg) is the small positive number the      *)
(* float library returns, never 0.                                         *)
(***************************************************************************)
EXTENDS Integers, Sequences, FiniteSets, TLC

\* ------------------------------------------------------------------ bounds
Height == 2           \* raster rows
MaxPopulated == 2     \* cells of a raster file that differ from 0

\* ----------------------------------------------------------- program data
KmPerDeg == 111

\* the raster transform: square pixels of PX degrees; the raster spans the
\* longitudes -60 .. 60 and Height rows down from the north pole
HalfPx == 3 * 10
PX == 2 * HalfPx
Width == 120 \div PX

\* 1 / cos(90 deg): the float library returns a tiny positive cosine at the
\* poles (6.1e-17), here a cosine of 1/CosPoleDen
CosPoleDen == 2 * 2 * 2 * 2

\* dataset.transform: north-up affine transform, origin at the top-left corner
Origin == [x |-> 0 - 60, y |-> 90]

\* dataset.nodata: the value the file flags as "no data"; read(masked=True)
\* masks exactly the cells holding it
NoData == 0 - 999

\* values a populated cell of the file can hold: no-data, a negative
\* sentinel the file does not flag, and a positive count
PopulatedValues == {NoData, 0 - 9, 7}

Cells == (0 .. Height - 1) \X (0 .. Width - 1)

\* the raster files: every grid with at most MaxPopulated cells other than 0
Rasters ==
  UNION { { [c \in Cells |-> IF c \in S THEN g[c] ELSE 0] :
              g \in [S -> PopulatedValues] } :
          S \in { T \in SUBSET Cells : Cardinality(T) <= MaxPopulated } }

\* ------------------------------------------------------------ arithmetic
Max(a, b) == IF a >= b THEN a ELSE b
Min(a, b) == IF a <= b THEN a ELSE b
FloorDiv(a, b) == a \div b
CeilDiv(a, b) == 0 - ((0 - a) \div b)

RECURSIVE SumOver(_, _)
SumOver(S, f) ==
  IF S = {} THEN 0
  ELSE LET c == CHOOSE x \in S : TRUE IN f[c] + SumOver(S \ {c}, f)

\* math.cos(math.radians(lat)) as num/den
Cos(lat) ==
  CASE lat = 0 -> [num |-> 1, den |-> 1]
    [] lat = 60 \/ lat = 0 - 60 -> [num |-> 1, den |-> 2]
    [] lat = 90 \/ lat = 0 - 90 -> [num |-> 1, den |-> CosPoleDen]
    [] lat = 120 -> [num |-> 0 - 1, den |-> 2]

\* ------------------------------------------- get_population_in_radius
\* rasterio.windows.from_bounds: the window of the bounds, as offsets and
\* lengths in degrees from the transform's origin (pixel units times PX);
\* it raises WindowError when the bounds are inverted
from_bounds(min_lon, min_lat, max_lon, max_lat) ==
  IF max_lon < min_lon \/ max_lat < min_lat
  THEN [raised |-> TRUE]
  ELSE [raised |-> FALSE,
        col_off |-> min_lon - Origin.x,
        row_off |-> Origin.y - max_lat,
        width |-> max_lon - min_lon,
        height |-> max_lat - min_lat]

\* dataset.read(1, window=window, masked=True): the window is cropped to the
\* dataset, its offsets rounded down and its lengths up to whole pixels;
\* the result is the block of cells [row0 .. row0+rows-1] x [col0 .. col0+cols-1]
read(window) ==
  LET c0 == Max(0, window.col_off)
      c1 == Min(Width * PX, window.col_off + window.width)
      r0 == Max(0, window.row_off)
      r1 == Min(Height * PX, window.row_off + window.height)
  IN  [row0 |-> FloorDiv(r0, PX),
       col0 |-> FloorDiv(c0, PX),
       rows |-> IF r1 > r0 THEN CeilDiv(r1 - r0, PX) ELSE 0,
       cols |-> IF c1 > c0 THEN CeilDiv(c1 - c0, PX) ELSE 0]

\* mutant: the window is rounded out to whole cells and the cell centres are
\* taken from the dataset's transform, with no test for an empty window
population_query_aligned(grid, lat, lon, radius_km, io_fails) ==
  LET cs == Cos(lat)
      radius == radius_km \div KmPerDeg
      lon_degrees == (radius * cs.den) * cs.num
      window == from_bounds(lon - lon_degrees, lat - radius,
                            lon + lon_degrees, lat + radius)
  IN  IF window.raised \/ io_fails THEN [raised |-> TRUE]
      ELSE
        LET c0 == Max(0, FloorDiv(window.col_off, PX))
            c1 == Min(Width, CeilDiv(window.col_off + window.width, PX))
            r0 == Max(0, FloorDiv(window.row_off, PX))
            r1 == Min(Height, CeilDiv(window.row_off + window.height, PX))
            xs(j) == Origin.x + j * PX + HalfPx
            ys(i) == Origin.y - i * PX - HalfPx
            kept == { c \in (r0 .. r1 - 1) \X (c0 .. c1 - 1) :
                        /\ ((xs(c[2]) - lon) * cs.num) * ((xs(c[2]) - lon) * cs.num)
                             + ((ys(c[1]) - lat) * cs.den) * ((ys(c[1]) - lat) * cs.den)
                           <= (radius * cs.den) * (radius * cs.den)
                        /\ grid[c] # NoData }
        IN  [raised |-> FALSE, value |-> Max(0, SumOver(kept, [c \in kept |-> grid[c]]))]

\* mutant: the sum is returned as it is
returned_population_unclamped(population) == population

\* line 82: max(0, population)
returned_population(population) == Max(0, population)

\* lines 39-81: the window read for the query and the population summed over
\* the cells of the window whose centre, taken from the window's own
\* transform, is within radius of (lat, lon); io_fails says that the raster
\* read raises.  The result is [raised |-> TRUE] or [raised |-> FALSE,
\* size |-> the number of cells read, population |-> the masked sum].
masked_population(grid, lat, lon, radius_km, io_fails) ==
  LET cs == Cos(lat)
      radius == radius_km \div KmPerDeg
      lat_degrees == radius
      \* radius / cos(lat): cs.num is 1 or -1, so dividing by it is multiplying
      lon_degrees == (radius * cs.den) * cs.num
      min_lon == lon - lon_degrees
      max_lon == lon + lon_degrees
      min_lat == lat - lat_degrees
      max_lat == lat + lat_degrees
      window == from_bounds(min_lon, min_lat, max_lon, max_lat)
  IN  IF window.raised \/ io_fails THEN [raised |-> TRUE]
      ELSE
        LET data == read(window)
            \* rasterio.transform.xy of the window transform: cell centres
            xs(j) == min_lon + j * PX + HalfPx
            ys(i) == max_lat - i * PX - HalfPx
            \* distances <= radius_km, both sides squared and divided by
            \* (111 / cs.den)^2
            mask(i, j) ==
              ((xs(j) - lon) * cs.num) * ((xs(j) - lon) * cs.num)
                + ((ys(i) - lat) * cs.den) * ((ys(i) - lat) * cs.den)
              <= (radius * cs.den) * (radius * cs.den)
            kept == { c \in (0 .. data.rows - 1) \X (0 .. data.cols - 1) :
                        /\ mask(c[1], c[2])
                        /\ grid[<<data.row0 + c[1], data.col0 + c[2]>>] # NoData }
            vals == [c \in kept |-> grid[<<data.row0 + c[1], data.col0 + c[2]>>]]
            population == SumOver(kept, vals)
        IN  [raised |-> FALSE, size |-> data.rows * data.cols,
             population |-> population]

\* lines 54-55 and 82: 0 for an empty window, else the masked sum m floored
\* at 0
window_population(m) ==
  IF m.raised THEN [raised |-> TRUE]
  ELSE IF m.size = 0
  THEN [raised |-> FALSE, value |-> 0]
  ELSE [raised |-> FALSE, value |-> returned_population(m.population)]

\* lines 39-82, the body of the try block.
\* The result is [raised |-> TRUE] or [raised |-> FALSE, value |-> n].
population_query(grid, lat, lon, radius_km, io_fails) ==
  window_population(masked_population(grid, lat, lon, radius_km, io_fails))

\* mutant: no except clause, the exception leaves the function
get_population_in_radius_uncaught(grid, lat, lon, radius_km, io_fails) ==
  LET r == population_query(grid, lat, lon, radius_km, io_fails)
  IN  IF r.raised
      THEN [raised |-> TRUE, value |-> 0, printed |-> FALSE]
      ELSE [raised |-> FALSE, value |-> r.value, printed |-> FALSE]

\* get_population_in_radius, lines 34-86: the try block, and the except
\* clause that prints the error and returns 0.  raised says that an
\* exception left the function (never, as every exception is caught),
\* printed that the except clause ran.
get_population_in_radius(grid, lat, lon, radius_km, io_fails) ==
  LET r == population_query(grid, lat, lon, radius_km, io_fails)
  IN  IF r.raised
      THEN [raised |-> FALSE, value |-> 0, printed |-> TRUE]
      ELSE [raised |-> FALSE, value |-> r.value, printed |-> FALSE]

\* ------------------------------------------------ effects model, fixed point
\* mass_kg is held in units of 10^18 kg and energy in units of 10^18 J, whose
\* cube root is CbrtEnergyUnit; logarithms and exponents are held in
\* twentieths (LogScale), magnitudes likewise
CbrtEnergyUnit == 1000 * 1000
LogEnergyUnit == 3 * 6
LogScale == 4 * 5

RECURSIVE Pow10(_)
Pow10(n) == IF n <= 0 THEN 1 ELSE 10 * Pow10(n - 1)

\* 1000 * 10^(k/20), k = 0 .. 19
Pow10Table ==
  <<1000, 1122, 1259, 1413, 1585, 1778, 1995, 2239, 2512, 2818,
    3162, 3548, 3981, 4467, 5012, 5623, 6310, 7079, 7943, 8913>>

\* floor of the cube root, by bisection on [lo, hi)
RECURSIVE CbrtIn(_, _, _)
CbrtIn(x, lo, hi) ==
  IF hi - lo <= 1 THEN lo
  ELSE LET mid == (lo + hi) \div 2
       IN  IF mid * mid * mid <= x THEN CbrtIn(x, mid, hi) ELSE CbrtIn(x, lo, mid)

Cbrt(x) == CbrtIn(x, 0, 1290)

RECURSIVE SqrtIn(_, _, _)
SqrtIn(x, lo, hi) ==
  IF hi - lo <= 1 THEN lo
  ELSE LET mid == (lo + hi) \div 2
       IN  IF mid * mid <= x THEN SqrtIn(x, mid, hi) ELSE SqrtIn(x, lo, mid)

Sqrt(x) == SqrtIn(x, 0, 46340)

\* number of decimal digits of x >= 1, less one
RECURSIVE Digits(_)
Digits(x) == IF x < 10 THEN 0 ELSE 1 + Digits(x \div 10)

\* floor(20 * log10(x)) for x >= 1
Log10(x) ==
  LET d == Digits(x)
      \* 1000 * x / 10^d, the mantissa in [1000, 10000)
      m == IF d >= 3 THEN x \div Pow10(d - 3) ELSE x * Pow10(3 - d)
      k == CHOOSE i \in 0 .. 19 :
             /\ Pow10Table[i + 1] <= m
             /\ (i = 19 \/ m < Pow10Table[i + 2])
  IN  LogScale * d + k

\* math.pow(10, e) for an exponent e held in twentieths, floored to whole km
PowTen(e) ==
  IF e < 0 THEN 0
  ELSE (Pow10Table[(e % LogScale) + 1] * Pow10(e \div LogScale)) \div 1000

\* line 93
velocity_m_s(velocity_kmh) == (velocity_kmh * 1000) \div 3600

\* mutant: the energy grows with the velocity, not with its square
kinetic_energy_linear(mass_kg, velocity_kmh) ==
  (mass_kg * velocity_m_s(velocity_kmh) * 1000) \div 2

\* line 94
kinetic_energy(mass_kg, velocity_kmh) ==
  (mass_kg * velocity_m_s(velocity_kmh) * velocity_m_s(velocity_kmh)) \div 2

\* lines 97-98
crater_diameter_m(diameter_m) == diameter_m * 15
crater_radius_km(diameter_m) == crater_diameter_m(diameter_m) \div 2000

\* line 101: math.pow(kinetic_energy, 1 / 3) * 0.05 / 1000
shockwave_radius_km(ke) == (Cbrt(ke) * CbrtEnergyUnit * 5) \div (100 * 1000)

\* line 104: (2 / 3) * math.log10(kinetic_energy / 1000) - 3.2, in
\* twentieths (3.2 is 64 twentieths)
magnitude(ke) ==
  (2 * (Log10(ke) + LogScale * (LogEnergyUnit - 3))) \div 3 - 64

\* mutant: the moderate zone takes the exponent 0.5 * magnitude - 2.3
moderate_shaking_radius_km_inner(mag) == PowTen(mag \div 2 - 46)

\* lines 105-107: math.pow(10, 0.5 * magnitude - c) for c = 2.0, 1.3, 0.8
\* (40, 26 and 16 twentieths)
strong_shaking_radius_km(mag) == PowTen(mag \div 2 - 40)
moderate_shaking_radius_km(mag) == PowTen(mag \div 2 - 26)
light_shaking_radius_km(mag) == PowTen(mag \div 2 - 16)

\* line 113: k * math.pow(kinetic_energy / (rho * g), 0.25), in metres;
\* 3177 is the fourth root of 10^18 / (1000 * 9.81)
initial_wave_height(ke) == (18 * Sqrt(Sqrt(ke)) * 3177) \div 100

\* line 114
tsunami_radius_km(diameter_m) == (500 * diameter_m) \div 1000

\* ------------------------------------------------ calculate_impact_casualties
Zones == <<"crater", "shockwave", "strong", "moderate", "light">>
ZoneSet == {Zones[i] : i \in 1 .. Len(Zones)}

\* lines 126-130; pop maps each zone to its cumulative population
crater_deaths(pop) == pop.crater

\* mutant: the strong-seismic fraction applied to the shockwave ring
shockwave_deaths_at_80(pop) == Max(0, ((pop.shockwave - pop.strong) * 8) \div 10)

\* mutant: the difference is not clamped at 0
shockwave_deaths_unclamped(pop) == ((pop.shockwave - pop.strong) * 3) \div 10

shockwave_deaths(pop) == Max(0, ((pop.shockwave - pop.strong) * 3) \div 10)
strong_seismic_deaths(pop) == Max(0, ((pop.strong - pop.crater) * 8) \div 10)

\* mutant: the strong-seismic deaths are left out of the total
total_deaths_without_strong(pop) == crater_deaths(pop) + shockwave_deaths(pop)

\* mutant: the moderate-seismic zone is given a fatality fraction
total_deaths_with_moderate(pop) ==
  crater_deaths(pop) + shockwave_deaths(pop) + strong_seismic_deaths(pop)
    + Max(0, ((pop.moderate - pop.strong) * 5) \div 10)

total_deaths(pop) ==
  crater_deaths(pop) + shockwave_deaths(pop) + strong_seismic_deaths(pop)

\* lines 93-114: energy, magnitude and the radius of every zone
impact_effects(diameter_m, mass_kg, velocity_kmh) ==
  LET ke == kinetic_energy(mass_kg, velocity_kmh)
      mag == magnitude(ke)
  IN  [kinetic_energy |-> ke,
       crater_diameter_m |-> crater_diameter_m(diameter_m),
       crater_radius_km |-> crater_radius_km(diameter_m),
       shockwave_radius_km |-> shockwave_radius_km(ke),
       magnitude |-> mag,
       strong_shaking_radius_km |-> strong_shaking_radius_km(mag),
       moderate_shaking_radius_km |-> moderate_shaking_radius_km(mag),
       light_shaking_radius_km |-> light_shaking_radius_km(mag),
       initial_wave_height |-> initial_wave_height(ke),
       tsunami_radius_km |-> tsunami_radius_km(diameter_m)]

\* lines 119-123: the radius each zone's population is queried with
zone_radius_km(zone, fx) ==
  CASE zone = "crater" -> fx.crater_radius_km
    [] zone = "shockwave" -> fx.shockwave_radius_km
    [] zone = "strong" -> fx.strong_shaking_radius_km
    [] zone = "moderate" -> fx.moderate_shaking_radius_km
    [] zone = "light" -> fx.light_shaking_radius_km

\* lines 125-154: the report, from the effects fx and the cumulative
\* populations pop
impact_report(fx, pop) ==
  [total_deaths |-> total_deaths(pop),
   crater_deaths |-> crater_deaths(pop),
   shockwave_deaths |-> shockwave_deaths(pop),
   strong_seismic_deaths |-> strong_seismic_deaths(pop),
   crater_radius_km |-> fx.crater_radius_km,
   crater_diameter_m |-> fx.crater_diameter_m,
   shockwave_radius_km |-> fx.shockwave_radius_km,
   strong_shaking_radius_km |-> fx.strong_shaking_radius_km,
   moderate_shaking_radius_km |-> fx.moderate_shaking_radius_km,
   light_shaking_radius_km |-> fx.light_shaking_radius_km,
   tsunami_wave_height_m |-> fx.initial_wave_height,
   tsunami_radius_km |-> fx.tsunami_radius_km,
   impact_energy_joules |-> fx.kinetic_energy,
   earthquake_magnitude |-> fx.magnitude,
   pop_crater |-> pop.crater,
   pop_shockwave |-> pop.shockwave,
   pop_strong_seismic |-> pop.strong,
   pop_moderate_seismic |-> pop.moderate,
   pop_light_seismic |-> pop.light]

\* lines 89-154.  fails is the set of zones whose raster read raises.  The
\* result says whether an exception left the function (math.pow of a
\* negative energy at line 101, math.log10 of zero energy at line 104), the
\* report otherwise, the radii the raster was queried for, in order, and the
\* zones whose query caught an exception.
calculate_impact_casualties(grid, lat, lon, diameter_m, mass_kg, velocity_kmh, fails) ==
  IF kinetic_energy(mass_kg, velocity_kmh) <= 0
  THEN [raised |-> TRUE, queries |-> <<>>, caught |-> {}]
  ELSE
    LET fx == impact_effects(diameter_m, mass_kg, velocity_kmh)
        got == [z \in ZoneSet |->
                  get_population_in_radius(grid, lat, lon, zone_radius_km(z, fx),
                                           z \in fails)]
        pop == [z \in ZoneSet |-> got[z].value]
        queries == [i \in 1 .. Len(Zones) |-> zone_radius_km(Zones[i], fx)]
    IN  IF \E z \in ZoneSet : got[z].raised
        THEN [raised |-> TRUE, queries |-> queries, caught |-> {}]
        ELSE [raised |-> FALSE,
              report |-> impact_report(fx, pop),
              queries |-> queries,
              caught |-> { z \in ZoneSet : got[z].printed }]

\* ---------------------------------------------------------------- state
VARIABLES
  file,      \* the raster file on disk: [present |-> TRUE, grid |-> g] or absent
  server,    \* "importing", "running" or "crashed"
  dataset,   \* the module global set at line 16
  request,   \* the body of the last POST /calculate_casualties
  response,  \* its response
  log,       \* what the handler did for it: raster queries, caught exceptions
  popq,      \* the last direct call of get_population_in_radius and its result
  cur,       \* the last report or call under comparison
  prev,      \* the one it is compared with
  currentImpactData,  \* the browser's impact result (line 703)
  threads,   \* the request threads of the server and where each one is
  stream,    \* generate_asteroids' locals and the events /stream_asteroids sent
  page       \* the browser page: its globals, the sidebar and the map's layers

vars == <<file, server, dataset, request, response, log, popq, cur, prev,
          currentImpactData, threads, stream, page>>

None == [kind |-> "none"]

\* line 16: rasterio.open(path), in the default mode "r": the grid of the
\* file and its affine transform (a, b, c, d, e, f)
opened(f) ==
  [kind |-> "open",
   grid |-> f.grid,
   transform |-> <<PX, 0, Origin.x, 0, 0 - PX, Origin.y>>]

\* mutant: a read consumes the cells, leaving zeros behind
dataset_after_read_zeroing(ds) == [ds EXCEPT !.grid = [c \in Cells |-> 0]]

\* line 52: what dataset.read leaves of the dataset it reads from; the
\* dataset is open for reading only
dataset_after_read(ds) == ds

\* the dataset after the n reads of n population queries
RECURSIVE dataset_after_reads(_, _)
dataset_after_reads(ds, n) ==
  IF n = 0 THEN ds ELSE dataset_after_reads(dataset_after_read(ds), n - 1)

\* ------------------------------------------------------------- the inputs
\* latitudes and longitudes a request carries; 120 and 200 are out of range
Lats == {0, 60, 120}
Lons == {0 - 30, 200}
\* diameters in m, masses in 10^18 kg, velocities in km/h
Diameters == {0 - 2000, 0, 444000, 888000}
Masses == {0, 1, 5}
Velocities == {0, 3600}
\* the zones whose raster read fails during one request
FailSets == {{}, {"shockwave"}, {"strong"}, {"crater", "moderate", "light"}}

\* ----------------------------------------------------------------- server
Init ==
  /\ file \in {[present |-> FALSE]} \cup {[present |-> TRUE, grid |-> g] : g \in Rasters}
  /\ server = "importing"
  /\ dataset = None
  /\ request = None
  /\ response = None
  /\ log = None
  /\ popq = None
  /\ cur = None
  /\ prev = None
  /\ currentImpactData = None
  /\ threads = None
  /\ stream = None
  /\ page = None

\* line 16, run when the module is imported: rasterio.open raises when the
\* file is absent or unreadable, nothing catches it, and the import fails
LoadDataset ==
  /\ server = "importing"
  /\ IF file.present
     THEN /\ dataset' = opened(file)
          /\ server' = "running"
     ELSE /\ dataset' = dataset
          /\ server' = "crashed"
  /\ UNCHANGED <<file, request, response, log, popq, cur, prev, currentImpactData, threads, stream, page>>

\* lines 1278-1290: the handler of POST /calculate_casualties; an exception
\* that leaves calculate_impact_casualties becomes a 500 response
calculate_casualties(data, fails) ==
  LET r == calculate_impact_casualties(dataset.grid, data.lat, data.lon,
             data.diameter, data.mass_kg, data.velocity_kmh, fails)
  IN  /\ request' = [kind |-> "request", data |-> data]
      /\ response' = IF r.raised
                     THEN [kind |-> "error", status |-> 500]
                     ELSE [kind |-> "report", status |-> 200, body |-> r.report]
      /\ log' = [kind |-> "log", queries |-> r.queries, caught |-> r.caught,
                 fails |-> IF r.queries = <<>> THEN {} ELSE fails]
      /\ dataset' = dataset_after_reads(dataset, Len(log'.queries))

CalculateCasualties ==
  /\ server = "running"
  /\ request = None
  /\ \E lat \in Lats, lon \in Lons, diameter \in Diameters,
        mass_kg \in Masses, velocity_kmh \in Velocities, fails \in FailSets :
       calculate_casualties([lat |-> lat, lon |-> lon, diameter |-> diameter,
                             mass_kg |-> mass_kg, velocity_kmh |-> velocity_kmh],
                            fails)
  /\ UNCHANGED <<file, server, popq, cur, prev, currentImpactData, threads, stream, page>>

\* the response is sent and the request context is torn down
SendResponse ==
  /\ request # None
  /\ request' = None
  /\ response' = None
  /\ log' = None
  /\ UNCHANGED <<file, server, dataset, popq, cur, prev, currentImpactData, threads, stream, page>>

Next == LoadDataset \/ CalculateCasualties \/ SendResponse

Spec == Init /\ [][Next]_vars

\* ------------------------------------- get_population_in_radius on its own
\* radii in km: whole multiples of 111 km, and 0
QueryLats == {0, 60, 90, 0 - 90}
QueryLons == {0 - 30, 0, 20}
QueryRadii == {KmPerDeg * d : d \in {0, 10, 20, 30, 40, 60, 100}}

InitPop ==
  /\ file \in {[present |-> TRUE, grid |-> g] : g \in Rasters}
  /\ server = "running"
  /\ dataset = opened(file)
  /\ request = None
  /\ response = None
  /\ log = None
  /\ popq = None
  /\ cur = None
  /\ prev = None
  /\ currentImpactData = None
  /\ threads = None
  /\ stream = None
  /\ page = None

PopulationQuery ==
  /\ server = "running"
  /\ popq = None
  /\ \E lat \in QueryLats, lon \in QueryLons, radius_km \in QueryRadii,
        io_fails \in BOOLEAN :
       popq' = [kind |-> "query", lat |-> lat, lon |-> lon,
                radius_km |-> radius_km, io_fails |-> io_fails,
                result |-> get_population_in_radius(dataset.grid, lat, lon,
                                                    radius_km, io_fails).value]
  /\ dataset' = dataset_after_read(dataset)
  /\ UNCHANGED <<file, server, request, response, log, cur, prev, currentImpactData, threads, stream, page>>

\* the caller takes the result
ReturnPopulation ==
  /\ popq # None
  /\ popq' = None
  /\ UNCHANGED <<file, server, dataset, request, response, log, cur, prev, currentImpactData, threads, stream, page>>

NextPop == PopulationQuery \/ ReturnPopulation

SpecPop == InitPop /\ [][NextPop]_vars

\* --------------------------- the report over given cumulative populations
PopValues == {0, 4, 7}
OuterPopValues == {0, 9}
Asteroids == {[diameter |-> 444000, mass_kg |-> 1, velocity_kmh |-> 3600],
              [diameter |-> 888000, mass_kg |-> 5, velocity_kmh |-> 3600]}

InitReport ==
  /\ file = [present |-> TRUE, grid |-> [c \in Cells |-> 0]]
  /\ server = "running"
  /\ dataset = opened(file)
  /\ request = None
  /\ response = None
  /\ log = None
  /\ popq = None
  /\ cur = None
  /\ prev = None
  /\ currentImpactData = None
  /\ threads = None
  /\ stream = None
  /\ page = None

\* lines 125-154 applied to the populations the five queries returned
Estimate ==
  /\ prev = None
  /\ \E a \in Asteroids, c \in PopValues, s \in PopValues, st \in PopValues,
        m \in OuterPopValues, l \in OuterPopValues :
       cur' = [kind |-> "report",
               body |-> impact_report(
                          impact_effects(a.diameter, a.mass_kg, a.velocity_kmh),
                          [crater |-> c, shockwave |-> s, strong |-> st,
                           moderate |-> m, light |-> l])]
  /\ prev' = cur
  /\ UNCHANGED <<file, server, dataset, request, response, log, popq, currentImpactData, threads, stream, page>>

\* both reports are dropped
DropReports ==
  /\ prev # None
  /\ cur' = None
  /\ prev' = None
  /\ UNCHANGED <<file, server, dataset, request, response, log, popq, currentImpactData, threads, stream, page>>

NextReport == Estimate \/ DropReports

SpecReport == InitReport /\ [][NextReport]_vars

\* ------------------------------- calculate_impact_casualties, call by call
\* calls made one after the other over one raster
MaxCalls == 3

\* rasters populated in their first column only
CallRasters == { g \in Rasters : \A c \in Cells : c[2] # 0 => g[c] = 0 }

\* the arguments of a call, and the zones whose raster read fails during it
CallInputs ==
  [lat : {60}, lon : {0 - 30}, diameter : {888000}, mass_kg : {1, 2},
   velocity_kmh : {1800, 3600}, fails : {{}, {"crater"}}]

\* mutant: the deaths of the calls made so far are carried into the next
estimation_accumulating(ds, args) ==
  LET r == calculate_impact_casualties(ds.grid, args.lat, args.lon, args.diameter,
                                       args.mass_kg, args.velocity_kmh, args.fails)
  IN  IF cur = None THEN r
      ELSE IF r.raised \/ cur.result.raised THEN r
      ELSE [r EXCEPT !.report.total_deaths = @ + cur.result.report.total_deaths]

\* lines 89-154 over the global dataset of line 16
estimation(ds, args) ==
  calculate_impact_casualties(ds.grid, args.lat, args.lon, args.diameter,
                              args.mass_kg, args.velocity_kmh, args.fails)

InitCalls ==
  /\ file \in {[present |-> TRUE, grid |-> g] : g \in CallRasters}
  /\ server = "running"
  /\ dataset = opened(file)
  /\ request = None
  /\ response = None
  /\ log = None
  /\ popq = None
  /\ cur = None
  /\ prev = None
  /\ currentImpactData = None
  /\ threads = None
  /\ stream = None
  /\ page = None

\* the call with arguments args has returned r; prev keeps the first call
\* of the run and cur the last one
Returned(args, r) ==
  /\ cur' = [kind |-> "call", n |-> IF cur = None THEN 1 ELSE cur.n + 1,
             args |-> args, result |-> r]
  /\ prev' = IF prev = None THEN cur' ELSE prev
  /\ dataset' = dataset_after_reads(dataset, Len(r.queries))

\* one call of calculate_impact_casualties
Call ==
  /\ server = "running"
  /\ IF cur = None THEN TRUE ELSE cur.n < MaxCalls
  /\ \E args \in CallInputs : Returned(args, estimation(dataset, args))
  /\ UNCHANGED <<file, server, request, response, log, popq, currentImpactData, threads, stream, page>>

\* the results are dropped
ForgetCalls ==
  /\ cur # None
  /\ cur' = None
  /\ prev' = None
  /\ UNCHANGED <<file, server, dataset, request, response, log, popq, currentImpactData, threads, stream, page>>

NextCalls == Call \/ ForgetCalls

SpecCalls == InitCalls /\ [][NextCalls]_vars

\* ------------------------------------------- requests served concurrently
\* app.run (line 1433) serves each request in a thread of its own; all of
\* them read through the one global dataset of line 16, and no lock is taken
NumThreads == 2
Threads == 1 .. NumThreads

ThreadQueries ==
  [lat : {0, 60}, lon : {0 - 30}, radius_km : {KmPerDeg * 20, KmPerDeg * 60}]

Idle == [pc |-> "idle"]

\* the threads inside dataset.read
Reading == { t \in Threads : threads[t].pc = "reading" }

\* what a query returns when nothing else reads the dataset meanwhile
alone(q) == get_population_in_radius(dataset.grid, q.lat, q.lon, q.radius_km, FALSE).value

\* what a read through a handle that another thread reads through at the same
\* time can give: its own cells, the cells fetched for another thread's
\* window, or an exception (caught at line 84, so 0)
RaceOutcomes(t) ==
  {alone(threads[t].query), 0}
    \cup { alone(threads[u].query) : u \in { v \in Threads : threads[v].pc # "idle" } }

InitThreads ==
  /\ file \in {[present |-> TRUE, grid |-> g] : g \in CallRasters}
  /\ server = "running"
  /\ dataset = opened(file)
  /\ request = None
  /\ response = None
  /\ log = None
  /\ popq = None
  /\ cur = None
  /\ prev = None
  /\ currentImpactData = None
  /\ threads = [t \in Threads |-> Idle]
  /\ stream = None
  /\ page = None

\* lines 39-52: a request thread computes its window and enters dataset.read;
\* it overlaps whatever read is under way, and that read overlaps it
BeginRead(t) ==
  /\ threads[t] = Idle
  /\ \E q \in ThreadQueries :
       threads' = [u \in Threads |->
                     IF u = t
                     THEN [pc |-> "reading", query |-> q, raced |-> Reading # {}]
                     ELSE IF u \in Reading
                     THEN [threads[u] EXCEPT !.raced = TRUE]
                     ELSE threads[u]]
  /\ UNCHANGED <<file, server, dataset, request, response, log, popq, cur, prev, currentImpactData, stream, page>>

\* lines 52-86: the read returns and the function returns the masked sum
EndRead(t) ==
  /\ threads[t].pc = "reading"
  /\ \E v \in (IF threads[t].raced THEN RaceOutcomes(t) ELSE {alone(threads[t].query)}) :
       threads' = [threads EXCEPT ![t] =
                     [pc |-> "done", query |-> threads[t].query,
                      raced |-> threads[t].raced, result |-> v]]
  /\ dataset' = dataset_after_read(dataset)
  /\ UNCHANGED <<file, server, request, response, log, popq, cur, prev, currentImpactData, stream, page>>

\* the caller takes the result
TakeResult(t) ==
  /\ threads[t].pc = "done"
  /\ threads' = [threads EXCEPT ![t] = Idle]
  /\ UNCHANGED <<file, server, dataset, request, response, log, popq, cur, prev, currentImpactData, stream, page>>

NextThreads == \E t \in Threads : BeginRead(t) \/ EndRead(t) \/ TakeResult(t)

SpecThreads == InitThreads /\ [][NextThreads]_vars

\* ------------------------------------------------------------ the browser
\* positions on the map are held in tenths of a degree
Deg == 2 * 5

\* lines 924-925: while (lng > 180) lng -= 360; while (lng < -180) lng += 360
RECURSIVE wrap_down(_)
\* mutant: the longitude is brought down by one turn at most
wrap_down_once(lng) == IF lng > 180 * Deg THEN lng - 360 * Deg ELSE lng

wrap_down(lng) == IF lng > 180 * Deg THEN wrap_down(lng - 360 * Deg) ELSE lng

RECURSIVE wrap_up(_)
wrap_up(lng) == IF lng < (0 - 180) * Deg THEN wrap_up(lng + 360 * Deg) ELSE lng

\* lines 927-935, in degrees: North America, South America, Europe, Africa,
\* Asia, Australia, Greenland
landMasses ==
  << [latMin |-> 15, latMax |-> 72, lngMin |-> 0 - 170, lngMax |-> 0 - 52],
     [latMin |-> 0 - 56, latMax |-> 13, lngMin |-> 0 - 82, lngMax |-> 0 - 34],
     [latMin |-> 36, latMax |-> 71, lngMin |-> 0 - 10, lngMax |-> 40],
     [latMin |-> 0 - 35, latMax |-> 37, lngMin |-> 0 - 18, lngMax |-> 52],
     [latMin |-> 0, latMax |-> 55, lngMin |-> 60, lngMax |-> 150],
     [latMin |-> 0 - 44, latMax |-> 0 - 10, lngMin |-> 113, lngMax |-> 154],
     [latMin |-> 60, latMax |-> 83, lngMin |-> 0 - 73, lngMax |-> 0 - 12] >>

\* mutant: the polar test of line 926 is left out
is_water_no_polar(lat, lng) ==
  LET l == wrap_up(wrap_down(lng))
  IN  ~ \E i \in 1 .. Len(landMasses) :
          /\ lat >= landMasses[i].latMin * Deg /\ lat <= landMasses[i].latMax * Deg
          /\ l >= landMasses[i].lngMin * Deg /\ l <= landMasses[i].lngMax * Deg

\* lines 923-944
is_water(lat, lng) ==
  LET l == wrap_up(wrap_down(lng))
  IN  IF lat > 70 * Deg \/ lat < (0 - 60) * Deg THEN TRUE
      ELSE ~ \E i \in 1 .. Len(landMasses) :
               /\ lat >= landMasses[i].latMin * Deg /\ lat <= landMasses[i].latMax * Deg
               /\ l >= landMasses[i].lngMin * Deg /\ l <= landMasses[i].lngMax * Deg

\* mutant: the tsunami zone is built whatever the impact point is
tsunamiData_always(water, casualtyData) ==
  [kind |-> "tsunami",
   waveHeight |-> casualtyData.tsunami_wave_height_m,
   radius |-> casualtyData.tsunami_radius_km,
   isWater |-> TRUE]

\* lines 946-974: var tsunamiData = null; if (is_water(...)) { ... }
tsunamiData(water, casualtyData) ==
  IF water
  THEN [kind |-> "tsunami",
        waveHeight |-> casualtyData.tsunami_wave_height_m,
        radius |-> casualtyData.tsunami_radius_km,
        isWater |-> TRUE]
  ELSE None

\* whole turns of longitude a point is compared across
MaxTurns == 2

\* the points the user can click, in tenths of a degree; the map repeats
\* the world, so a click can carry a longitude beyond +-180
MapLats == {0, 407, 500, 650, 700, 701, 750, 830, 0 - 350, 0 - 600, 0 - 601}
MapLngs == {0 - 1600, 0 - 740, 0 - 1700, 1900, 5500, 0 - 300, 400, 401, 4000,
            0 - 1800, 1800, 1000, 0 - 2600}
\* the reports the server answers the browser with
CasualtyReports ==
  { impact_report(impact_effects(a.diameter, a.mass_kg, a.velocity_kmh),
                  [z \in ZoneSet |-> p]) : a \in Asteroids, p \in {0, 7} }

InitBrowser ==
  /\ file = [present |-> TRUE, grid |-> [c \in Cells |-> 0]]
  /\ server = "running"
  /\ dataset = opened(file)
  /\ request = None
  /\ response = None
  /\ log = None
  /\ popq = None
  /\ cur = None
  /\ prev = None
  /\ currentImpactData = None
  /\ threads = None
  /\ stream = None
  /\ page = None

\* lines 763-990: the click on the impact button, once the server has
\* answered with casualtyData
LaunchImpact ==
  /\ currentImpactData = None
  /\ \E lat \in MapLats, lng \in MapLngs, casualtyData \in CasualtyReports :
       currentImpactData' =
         [kind |-> "impact",
          location |-> [lat |-> lat, lng |-> lng],
          casualtyData |-> casualtyData,
          tsunami |-> tsunamiData(is_water(lat, lng), casualtyData)]
  /\ UNCHANGED <<file, server, dataset, request, response, log, popq, cur, prev, threads, stream, page>>

\* lines 1225-1266
resetToAsteroidList ==
  /\ currentImpactData # None
  /\ currentImpactData' = None
  /\ UNCHANGED <<file, server, dataset, request, response, log, popq, cur, prev, threads, stream, page>>

NextBrowser == LaunchImpact \/ resetToAsteroidList

SpecBrowser == InitBrowser /\ [][NextBrowser]_vars

\* ------------------------------- generate_asteroids and /stream_asteroids
\* dates are days since 2015-01-01 and times are seconds
start_date == 0
\* line 163: end_date, today minus 7 days
EndDay == 45
\* line 172: a window reaches 6 days back from current_date
BatchDays == 6
\* lines 167, 182 and 186: the generator stops at 20 records
MaxCount == 20
\* line 161
timeout == 60
\* line 176: requests.get(url, timeout=10)
request_timeout == 10
\* the asteroids of one feed answer, over all its dates
MaxItems == 3

\* what the generator can meet in a feed answer: a hazardous asteroid with
\* a close approach under 100,000,000 km, an asteroid lines 188-190 skip,
\* and one whose fields raise (a missing key, a number that is not one)
ItemKinds == {"hazardous", "other", "malformed"}
RECURSIVE SeqsUpTo(_, _)
SeqsUpTo(S, n) ==
  IF n = 0 THEN {<<>>}
  ELSE LET shorter == SeqsUpTo(S, n - 1)
       IN  shorter \cup {Append(q, x) : q \in {p \in shorter : Len(p) = n - 1}, x \in S}
\* the answers of the feed: a status other than 200, an exception in
\* requests.get or r.json(), or the asteroids of the window
FeedAnswers ==
  {[kind |-> "status", items |-> <<>>], [kind |-> "raises", items |-> <<>>]}
    \cup {[kind |-> "ok", items |-> q] : q \in SeqsUpTo(ItemKinds, MaxItems)}
\* the seconds a request, or a consumer between two events, can take; the
\* clock is followed up to the first value beyond the timeout
Delays(elapsed) == IF elapsed > timeout THEN {0} ELSE {0, request_timeout}

\* mutant: the generator never sees its limit
limit_reached_never(count) == FALSE

\* lines 167, 182 and 186: count >= 20
limit_reached(count) == count >= MaxCount

\* lines 169-170, 182 and 186: time.time() - start_time > timeout
timed_out(elapsed) == elapsed > timeout

\* line 172
batch_start(current_date) == Max(current_date - BatchDays, start_date)

\* mutant: a failed window is asked for again
after_batch_retrying(current_date, failed) ==
  IF failed THEN current_date ELSE batch_start(current_date) - 1

\* lines 178, 214 and 217: the day before the window, whether the request
\* failed or not
after_batch(current_date, failed) == batch_start(current_date) - 1

\* mutant: found_any is left as it was
found_after_event_stale(found_any) == found_any

\* line 1299
found_after_event(found_any) == TRUE

InitStream ==
  /\ file = [present |-> TRUE, grid |-> [c \in Cells |-> 0]]
  /\ server = "running"
  /\ dataset = opened(file)
  /\ request = None
  /\ response = None
  /\ log = None
  /\ popq = None
  /\ cur = None
  /\ prev = None
  /\ currentImpactData = None
  /\ threads = None
  /\ stream = [kind |-> "stream", pc |-> "start", events |-> <<>>,
               found_any |-> FALSE, count |-> 0, elapsed |-> 0,
               current_date |-> EndDay, items |-> <<>>, all_failed |-> TRUE]
  /\ page = None

\* line 1296, and lines 159-165 when the for loop first asks the generator
StreamStatus ==
  /\ stream.pc = "start"
  /\ stream' = [stream EXCEPT !.pc = "while", !.events = Append(@, "status")]
  /\ UNCHANGED <<file, server, dataset, request, response, log, popq, cur, prev, currentImpactData, threads, page>>

\* lines 167-179 and 213-215: one more window is asked for; the request
\* fails, or its answer is kept to be gone through
FeedRequest ==
  /\ stream.pc = "while"
  /\ stream.current_date >= start_date /\ ~limit_reached(stream.count)
  /\ ~timed_out(stream.elapsed)
  /\ \E answer \in FeedAnswers, d \in Delays(stream.elapsed) :
       IF answer.kind = "ok"
       THEN stream' = [stream EXCEPT !.pc = "items", !.items = answer.items,
                                     !.elapsed = @ + d, !.all_failed = FALSE]
       ELSE stream' = [stream EXCEPT
                         !.current_date = after_batch(@, TRUE),
                         !.elapsed = @ + d]
  /\ UNCHANGED <<file, server, dataset, request, response, log, popq, cur, prev, currentImpactData, threads, page>>

\* lines 181-217: the next asteroid of the answer; a hazardous one is
\* yielded, and lines 1299-1300 send it
FeedItem ==
  /\ stream.pc = "items"
  /\ IF stream.items = <<>> \/ limit_reached(stream.count)
          \/ timed_out(stream.elapsed)
     THEN stream' = [stream EXCEPT !.pc = "while", !.items = <<>>,
                                   !.current_date = after_batch(@, FALSE)]
     ELSE CASE Head(stream.items) = "hazardous" ->
                 \E d \in Delays(stream.elapsed) :
                   stream' = [stream EXCEPT
                                !.items = Tail(@), !.count = @ + 1,
                                !.found_any = found_after_event(@),
                                !.events = Append(@, "asteroid"),
                                !.elapsed = @ + d]
            [] Head(stream.items) = "other" ->
                 stream' = [stream EXCEPT !.items = Tail(@)]
            [] Head(stream.items) = "malformed" ->
                 stream' = [stream EXCEPT !.pc = "while", !.items = <<>>,
                                          !.current_date = after_batch(@, TRUE)]
  /\ UNCHANGED <<file, server, dataset, request, response, log, popq, cur, prev, currentImpactData, threads, page>>

\* lines 167-170: the while loop ends, by its condition or by the break
FeedEnd ==
  /\ stream.pc = "while"
  /\ \/ stream.current_date < start_date
     \/ limit_reached(stream.count)
     \/ timed_out(stream.elapsed)
  /\ stream' = [stream EXCEPT !.pc = "end"]
  /\ UNCHANGED <<file, server, dataset, request, response, log, popq, cur, prev, currentImpactData, threads, page>>

\* lines 1301-1302
StreamError ==
  /\ stream.pc = "end"
  /\ stream' = [stream EXCEPT
                  !.pc = "complete",
                  !.events = IF stream.found_any THEN @ ELSE Append(@, "error")]
  /\ UNCHANGED <<file, server, dataset, request, response, log, popq, cur, prev, currentImpactData, threads, page>>

\* line 1303
StreamComplete ==
  /\ stream.pc = "complete"
  /\ stream' = [stream EXCEPT !.pc = "done", !.events = Append(@, "complete")]
  /\ UNCHANGED <<file, server, dataset, request, response, log, popq, cur, prev, currentImpactData, threads, page>>

NextStream ==
  \/ StreamStatus
  \/ FeedRequest
  \/ FeedItem
  \/ FeedEnd
  \/ StreamError
  \/ StreamComplete

SpecStream == InitStream /\ [][NextStream]_vars

\* the server keeps running the generator while the client reads the stream
SpecStreamFair == SpecStream /\ WF_vars(NextStream)

\* ------------------------------------------------------- the browser page
\* lines 1067, 1075, 1091, 1100 and 1109: the "Population in zone" figure
\* showImpactResults writes for each zone of the report data
population_in_zone(data) ==
  [crater |-> data.pop_crater,
   shockwave |-> data.pop_shockwave - data.pop_strong_seismic,
   strongSeismic |-> data.pop_strong_seismic - data.pop_crater,
   moderateSeismic |-> data.pop_moderate_seismic - data.pop_strong_seismic,
   lightSeismic |-> data.pop_light_seismic - data.pop_moderate_seismic]

\* the zone groups one session draws
MaxDrawn == 2
\* the requests that can be in flight together
MaxPending == 2
\* the points the user clicks, in tenths of a degree
PageLocations == {[lat |-> 407, lng |-> 0 - 740], [lat |-> 0, lng |-> 0 - 300]}

\* lines 1028-1126: the sidebar showImpactResults writes; the asteroid list
\* and the impact button are gone from it
showImpactResults(impactData) ==
  [view |-> "results",
   population_in_zone |-> population_in_zone(impactData.casualtyData),
   tsunami |-> IF impactData.tsunami = None THEN FALSE
               ELSE impactData.tsunami.isWater]

\* lines 1236-1260 (and 689-696 at page load): the sidebar with the asteroid
\* list and the impact button, written disabled
asteroid_list_sidebar == [view |-> "list", disabled |-> TRUE]

\* line 741: document.getElementById('impact-btn').disabled = ...; with the
\* results in the sidebar getElementById returns null and the assignment
\* throws a TypeError
updateImpactButton(p) ==
  IF p.sidebar.view = "list"
  THEN [p EXCEPT !.sidebar.disabled =
                   ~(p.selectedAsteroid # None /\ p.waypointLocation # None),
                 !.outcome = "done"]
  ELSE [p EXCEPT !.outcome = "TypeError"]

\* what the server answers a request with
casualty_answer(body) ==
  impact_report(impact_effects(body.asteroid.diameter, body.asteroid.mass_kg,
                               body.asteroid.velocity_kmh),
                [z \in ZoneSet |-> 7])

\* lines 779-974: the circles and labels the response handler adds to the
\* map, as one group: centred on waypointLocation, sized by casualtyData,
\* the wind zone sized by selectedAsteroid; sent is the request answered
zone_group(p, sent, casualtyData) ==
  [kind |-> "zones", id |-> p.drawn + 1,
   centre |-> p.waypointLocation,
   crater_diameter_m |-> casualtyData.crater_diameter_m,
   wind_of |-> p.selectedAsteroid,
   sent |-> sent]

\* lines 700-703 and 689-696: the page once loaded
InitPage ==
  /\ file = [present |-> TRUE, grid |-> [c \in Cells |-> 0]]
  /\ server = "running"
  /\ dataset = opened(file)
  /\ request = None
  /\ response = None
  /\ log = None
  /\ popq = None
  /\ cur = None
  /\ prev = None
  /\ currentImpactData = None
  /\ threads = None
  /\ stream = None
  /\ page = [kind |-> "page",
             sidebar |-> asteroid_list_sidebar,
             selectedAsteroid |-> None,
             waypointLocation |-> None,
             waypointMarker |-> None,
             impactLayers |-> {},
             mapLayers |-> {},
             pending |-> <<>>,
             drawn |-> 0,
             outcome |-> "done"]

\* lines 750-761: a click on an asteroid of the list
AsteroidClick ==
  /\ page.sidebar.view = "list"
  /\ \E a \in Asteroids :
       page' = updateImpactButton([page EXCEPT !.selectedAsteroid = a])
  /\ UNCHANGED <<file, server, dataset, request, response, log, popq, cur, prev, currentImpactData, threads, stream>>

\* lines 1000-1006: a click on the map
MapClick ==
  /\ \E latlng \in PageLocations :
       LET marker == [kind |-> "marker", at |-> latlng]
       IN  page' = updateImpactButton(
                     [page EXCEPT
                        !.mapLayers = (@ \ {page.waypointMarker}) \cup {marker},
                        !.waypointLocation = latlng,
                        !.waypointMarker = marker])
  /\ UNCHANGED <<file, server, dataset, request, response, log, popq, cur, prev, currentImpactData, threads, stream>>

\* lines 763-777: a click on the impact button, which sends the request
ImpactClick ==
  /\ page.sidebar.view = "list" /\ ~page.sidebar.disabled
  /\ page.drawn + Len(page.pending) < MaxDrawn
  /\ Len(page.pending) < MaxPending
  /\ page' =
       IF page.selectedAsteroid = None \/ page.waypointLocation = None
       THEN [page EXCEPT !.outcome = "done"]
       ELSE [page EXCEPT
               !.pending = Append(@, [location |-> page.waypointLocation,
                                      asteroid |-> page.selectedAsteroid]),
               !.outcome = "done"]
  /\ UNCHANGED <<file, server, dataset, request, response, log, popq, cur, prev, currentImpactData, threads, stream>>

\* lines 778-993: the response of a request in flight arrives.  After a
\* reset waypointLocation is null and the handler throws on its first
\* circle, which line 991 turns into an alert
CasualtyResponse ==
  /\ \E i \in 1 .. Len(page.pending) :
       LET sent == page.pending[i]
           rest == SubSeq(page.pending, 1, i - 1)
                     \o SubSeq(page.pending, i + 1, Len(page.pending))
           casualtyData == casualty_answer(sent)
       IN  IF page.waypointLocation = None \/ page.selectedAsteroid = None
           THEN /\ page' = [page EXCEPT !.pending = rest, !.impactLayers = {},
                                        !.outcome = "alert"]
                /\ UNCHANGED currentImpactData
           ELSE /\ currentImpactData' =
                     [kind |-> "impact",
                      asteroid |-> page.selectedAsteroid,
                      location |-> page.waypointLocation,
                      casualtyData |-> casualtyData,
                      tsunami |-> tsunamiData(is_water(page.waypointLocation.lat,
                                                       page.waypointLocation.lng),
                                              casualtyData)]
                /\ page' = [page EXCEPT
                              !.pending = rest,
                              !.impactLayers = {zone_group(page, sent, casualtyData)},
                              !.mapLayers = (@ \ {page.waypointMarker})
                                              \cup {zone_group(page, sent, casualtyData)},
                              !.waypointMarker = None,
                              !.drawn = @ + 1,
                              !.sidebar = showImpactResults(currentImpactData'),
                              !.outcome = "done"]
  /\ UNCHANGED <<file, server, dataset, request, response, log, popq, cur, prev, threads, stream>>

\* lines 1225-1269: the click on the back button of the results
BackToAsteroidList ==
  /\ page.sidebar.view = "results"
  /\ page' = [page EXCEPT
                !.mapLayers = @ \ page.impactLayers,
                !.impactLayers = {},
                !.sidebar = asteroid_list_sidebar,
                !.selectedAsteroid = None,
                !.waypointLocation = None,
                !.outcome = "done"]
  /\ currentImpactData' = None
  /\ UNCHANGED <<file, server, dataset, request, response, log, popq, cur, prev, threads, stream>>

NextPage ==
  \/ AsteroidClick
  \/ MapClick
  \/ ImpactClick
  \/ CasualtyResponse
  \/ BackToAsteroidList

SpecPage == InitPage /\ [][NextPage]_vars

\* ================================================================= claims
\* the scenarios the data model calls valid
ValidScenario(data) ==
  /\ data.diameter > 0
  /\ data.mass_kg > 0
  /\ data.velocity_kmh >= 0
  /\ 0 - 90 <= data.lat /\ data.lat <= 90
  /\ 0 - 180 <= data.lon /\ data.lon <= 180

\* the cell of the raster whose centre is (lat, lon), if there is one
CentreCells(lat, lon) ==
  { c \in Cells : /\ Origin.x + c[2] * PX + HalfPx = lon
                  /\ Origin.y - c[1] * PX - HalfPx = lat }

\* C1: in every report the handler returns, total_deaths is the sum of
\* crater_deaths, shockwave_deaths and strong_seismic_deaths.
C1_TotalIsSum ==
  response.kind = "report" =>
    response.body.total_deaths =
      response.body.crater_deaths + response.body.shockwave_deaths
        + response.body.strong_seismic_deaths

\* C1 witness: a report of a valid scenario in which two of the three zone
\* counts are positive.
C1_Witness ==
  /\ response.kind = "report"
  /\ ValidScenario(request.data)
  /\ response.body.crater_deaths > 0
  /\ response.body.shockwave_deaths > 0

\* C2: a query with radius 0 returns 0.
C2_ZeroRadius ==
  (popq.kind = "query" /\ popq.radius_km = 0) => popq.result = 0

\* C2 witness: a successful radius-0 query made exactly at the centre of a
\* cell that holds a positive count.
C2_Witness ==
  /\ popq.kind = "query"
  /\ popq.radius_km = 0
  /\ ~popq.io_fails
  /\ \E c \in CentreCells(popq.lat, popq.lon) : dataset.grid[c] > 0
  /\ popq.result = 0

\* C3 (the claim as stated): for a fixed point and raster, the result of a
\* successful query is at least the result of every successful query with a
\* smaller radius.
C3_Monotone ==
  (popq.kind = "query" /\ ~popq.io_fails) =>
    \A r \in QueryRadii :
      r <= popq.radius_km =>
        get_population_in_radius(dataset.grid, popq.lat, popq.lon, r, FALSE).value
          <= popq.result

\* C4 (the claim as stated): with the raster file absent the program keeps
\* running, and every response it gives is a report with total_deaths 0.
C4_DegradedMode ==
  ~file.present =>
    /\ server # "crashed"
    /\ response # None =>
         (response.kind = "report" /\ response.body.total_deaths = 0)

\* C5: every exception raised inside a population query of a request is
\* caught there: the request is answered with a report, and the zone's
\* population in it is 0.
C5_FailureCaught ==
  (log.kind = "log" /\ log.queries # <<>>) =>
    /\ response.kind = "report"
    /\ log.fails \subseteq log.caught
    /\ ("crater" \in log.caught => response.body.pop_crater = 0)
    /\ ("shockwave" \in log.caught => response.body.pop_shockwave = 0)
    /\ ("strong" \in log.caught => response.body.pop_strong_seismic = 0)
    /\ ("moderate" \in log.caught => response.body.pop_moderate_seismic = 0)
    /\ ("light" \in log.caught => response.body.pop_light_seismic = 0)

\* C5 witness: a raster read failed during a request, and the report still
\* carries the population of another zone.
C5_Witness ==
  /\ log.kind = "log"
  /\ "shockwave" \in log.fails
  /\ response.kind = "report"
  /\ response.body.pop_shockwave = 0
  /\ response.body.pop_strong_seismic > 0

\* C6 (the claim as stated): a request whose scenario is not valid is
\* rejected: no report is returned and the raster is not queried.
C6_InvalidRejected ==
  (request.kind = "request" /\ ~ValidScenario(request.data)) =>
    /\ response.kind = "rejected"
    /\ log.queries = <<>>

\* C7 (the claim as stated): every valid scenario, velocity 0 included, is
\* answered with a report.
C7_ValidGetsReport ==
  (request.kind = "request" /\ ValidScenario(request.data)) =>
    response.kind = "report"

\* C8: crater_deaths is pop_crater, shockwave_deaths is 30% of
\* max(0, pop_shockwave - pop_strong_seismic) and strong_seismic_deaths is
\* 80% of max(0, pop_strong_seismic - pop_crater), each truncated.
C8_FatalityFractions ==
  response.kind = "report" =>
    LET b == response.body
    IN  /\ b.crater_deaths = b.pop_crater
        /\ b.shockwave_deaths =
             (30 * Max(0, b.pop_shockwave - b.pop_strong_seismic)) \div 100
        /\ b.strong_seismic_deaths =
             (80 * Max(0, b.pop_strong_seismic - b.pop_crater)) \div 100

\* C8 witness: a report whose shockwave ring holds people, with a count
\* that the truncation rounds down.
C8_Witness ==
  /\ response.kind = "report"
  /\ response.body.pop_shockwave - response.body.pop_strong_seismic = 7
  /\ response.body.shockwave_deaths = 2

\* C9: no death count of a report is negative.
C9_DeathsNonNegative ==
  response.kind = "report" =>
    /\ response.body.crater_deaths >= 0
    /\ response.body.shockwave_deaths >= 0
    /\ response.body.strong_seismic_deaths >= 0
    /\ response.body.total_deaths >= 0

\* C9 witness: a report in which the shockwave zone holds fewer people than
\* the strong-seismic zone.
C9_Witness ==
  /\ response.kind = "report"
  /\ response.body.pop_shockwave < response.body.pop_strong_seismic
  /\ response.body.shockwave_deaths = 0

\* C10: two reports with the same pop_crater, pop_shockwave and
\* pop_strong_seismic have the same total_deaths.
C10_OuterZonesNoDeaths ==
  (cur.kind = "report" /\ prev.kind = "report"
     /\ cur.body.pop_crater = prev.body.pop_crater
     /\ cur.body.pop_shockwave = prev.body.pop_shockwave
     /\ cur.body.pop_strong_seismic = prev.body.pop_strong_seismic) =>
    cur.body.total_deaths = prev.body.total_deaths

\* C10 witness: two such reports that differ in pop_moderate_seismic,
\* pop_light_seismic, the tsunami radius and the wave height, with deaths.
C10_Witness ==
  /\ cur.kind = "report" /\ prev.kind = "report"
  /\ cur.body.pop_crater = prev.body.pop_crater
  /\ cur.body.pop_shockwave = prev.body.pop_shockwave
  /\ cur.body.pop_strong_seismic = prev.body.pop_strong_seismic
  /\ cur.body.pop_moderate_seismic # prev.body.pop_moderate_seismic
  /\ cur.body.pop_light_seismic # prev.body.pop_light_seismic
  /\ cur.body.tsunami_radius_km # prev.body.tsunami_radius_km
  /\ cur.body.tsunami_wave_height_m # prev.body.tsunami_wave_height_m
  /\ cur.body.total_deaths > 0

\* C11: the browser's impact result carries the tsunami zone (wave height and
\* radius, taken from the server's report) exactly when is_water classifies
\* the impact point as water; it is there for (0, -160) and not for
\* (40.7, -74.0).
C11_TsunamiIffWater ==
  currentImpactData # None =>
    LET loc == currentImpactData.location
        t == currentImpactData.tsunami
    IN  /\ (t # None) <=> is_water(loc.lat, loc.lng)
        /\ t # None =>
             /\ t.waveHeight = currentImpactData.casualtyData.tsunami_wave_height_m
             /\ t.radius = currentImpactData.casualtyData.tsunami_radius_km
        /\ (loc.lat = 0 /\ loc.lng = 0 - 1600) => t # None
        /\ (loc.lat = 407 /\ loc.lng = 0 - 740) => t = None

\* C11 witness: an impact at (0, -160) whose result carries a tsunami zone
\* with a wave height above 0.
C11_Witness ==
  /\ currentImpactData # None
  /\ currentImpactData.location = [lat |-> 0, lng |-> 0 - 1600]
  /\ currentImpactData.tsunami # None
  /\ currentImpactData.tsunami.waveHeight > 0

\* C12: the point of an impact is water exactly when its latitude is above
\* 70 or below -60 or it lies in none of the seven boxes; between -60 and 70
\* a point inside a box is land.
C12_WaterIffPolarOrOutside ==
  currentImpactData # None =>
    LET lat == currentImpactData.location.lat
        lng == ((currentImpactData.location.lng + 180 * Deg) % (360 * Deg)) - 180 * Deg
        inside(b) == /\ b.latMin * Deg <= lat /\ lat <= b.latMax * Deg
                     /\ b.lngMin * Deg <= lng /\ lng <= b.lngMax * Deg
        boxes == {landMasses[i] : i \in 1 .. Len(landMasses)}
    IN  (currentImpactData.tsunami # None) <=>
          (lat > 70 * Deg \/ lat < (0 - 60) * Deg \/ \A b \in boxes : ~inside(b))

\* C12 witness: a point above latitude 70 inside the Greenland box, water.
C12_Witness ==
  /\ currentImpactData # None
  /\ currentImpactData.location = [lat |-> 750, lng |-> 0 - 300]
  /\ currentImpactData.tsunami # None

\* C13: the classification of the impact point is the one of every point a
\* whole number of turns of longitude away from it.
C13_LongitudeTurns ==
  currentImpactData # None =>
    \A k \in (0 - MaxTurns) .. MaxTurns :
      is_water(currentImpactData.location.lat,
               currentImpactData.location.lng + k * 360 * Deg)
        = (currentImpactData.tsunami # None)

\* C13 witness: a land point of North America given two turns east of its
\* normal longitude, (50, 550) for (50, -170).
C13_Witness ==
  /\ currentImpactData # None
  /\ currentImpactData.location = [lat |-> 500, lng |-> 5500]
  /\ currentImpactData.tsunami = None

\* C14: of two calls that both return a report, the one with the same mass
\* and twice the velocity reports four times the kinetic energy, and the one
\* with the same velocity and twice the mass reports twice the energy.
C14_EnergyScaling ==
  (cur # None /\ ~cur.result.raised /\ ~prev.result.raised) =>
    /\ (cur.args.mass_kg = prev.args.mass_kg
          /\ cur.args.velocity_kmh = 2 * prev.args.velocity_kmh) =>
         cur.result.report.impact_energy_joules
           = 4 * prev.result.report.impact_energy_joules
    /\ (cur.args.velocity_kmh = prev.args.velocity_kmh
          /\ cur.args.mass_kg = 2 * prev.args.mass_kg) =>
         cur.result.report.impact_energy_joules
           = 2 * prev.result.report.impact_energy_joules

\* C14 witness: a call with twice the velocity of the first call and the
\* same mass, both reporting an energy above 0.
C14_Witness ==
  /\ cur # None /\ ~cur.result.raised /\ ~prev.result.raised
  /\ cur.args.mass_kg = prev.args.mass_kg
  /\ cur.args.velocity_kmh = 2 * prev.args.velocity_kmh
  /\ prev.result.report.impact_energy_joules > 0

C17_RasterUnchanged ==
  server = "running" => dataset = opened(file)

\* C17 witness: a request answered after a failed raster read, over a raster
\* with a populated cell.
C17_Witness ==
  /\ log # None
  /\ log.fails # {}
  /\ log.caught # {}
  /\ \E c \in Cells : dataset.grid[c] > 0

\* C16: no two threads are inside a read of the dataset at the same time,
\* and every population query returns what it returns when run alone.
C16_ReadsIsolated ==
  /\ Cardinality(Reading) <= 1
  /\ \A t \in Threads :
       threads[t].pc = "done" => threads[t].result = alone(threads[t].query)

\* C18: a request answered with a report queried the raster once for each of
\* the crater, shockwave, strong, moderate and light radii, in this order,
\* and then once for the tsunami radius exactly when the impact point is
\* water; the report carries each of these populations.
C18_QueriesPerZone ==
  response.kind = "report" =>
    LET data == request.data
        fx == impact_effects(data.diameter, data.mass_kg, data.velocity_kmh)
        water == is_water(data.lat * Deg, data.lon * Deg)
        land_queries == <<fx.crater_radius_km, fx.shockwave_radius_km,
                          fx.strong_shaking_radius_km,
                          fx.moderate_shaking_radius_km,
                          fx.light_shaking_radius_km>>
    IN  /\ log.queries = IF water
                         THEN Append(land_queries, fx.tsunami_radius_km)
                         ELSE land_queries
        /\ {"pop_crater", "pop_shockwave", "pop_strong_seismic",
            "pop_moderate_seismic", "pop_light_seismic"}
             \subseteq DOMAIN response.body
        /\ ("pop_tsunami" \in DOMAIN response.body) <=> water

\* C19: for a radius above 0, a query whose read succeeds returns the sum of
\* the values of the cells of the extracted window whose centre is within
\* radius_km of (lat, lon), at 111 km per degree of latitude and
\* 111 * cos(lat) km per degree of longitude; no-data cells count as 0.
C19_SumOfCellsInRadius ==
  (popq # None /\ popq.radius_km > 0 /\ ~popq.io_fails) =>
    LET cs == Cos(popq.lat)
        radius == popq.radius_km \div KmPerDeg
        lon_degrees == (radius * cs.den) * cs.num
        data == read(from_bounds(popq.lon - lon_degrees, popq.lat - radius,
                                 popq.lon + lon_degrees, popq.lat + radius))
        window_cells == (data.row0 .. data.row0 + data.rows - 1)
                          \X (data.col0 .. data.col0 + data.cols - 1)
        dx(c) == (Origin.x + c[2] * PX + HalfPx - popq.lon) * cs.num
        dy(c) == (Origin.y - c[1] * PX - HalfPx - popq.lat) * cs.den
        within == { c \in window_cells :
                      dx(c) * dx(c) + dy(c) * dy(c)
                        <= (radius * cs.den) * (radius * cs.den) }
        value == [c \in within |->
                    IF dataset.grid[c] = NoData THEN 0 ELSE dataset.grid[c]]
    IN  popq.result = SumOver(within, value)

\* C20: what get_population_in_radius returns is never negative, whatever
\* the raster holds and whether the window is empty, the sum is taken or the
\* read raises.
C20_PopulationNonNegative ==
  popq # None => popq.result >= 0

\* C20 witness: a query whose masked sum is negative, over a raster with
\* negative cells that are not flagged as no-data, returns 0.
C20_Witness ==
  /\ popq # None
  /\ ~popq.io_fails
  /\ LET m == masked_population(dataset.grid, popq.lat, popq.lon,
                                popq.radius_km, FALSE)
     IN  m.size > 0 /\ m.population < 0
  /\ popq.result = 0

\* C21 (the claim as stated): at the poles the longitude delta of the
\* bounding box is clamped, so that the box is no wider than the globe
\* (180 degrees on each side of the centre).
C21_PolarDeltaClamped ==
  (popq.kind = "query" /\ (popq.lat = 90 \/ popq.lat = 0 - 90)) =>
    LET cs == Cos(popq.lat)
        radius == popq.radius_km \div KmPerDeg
        lon_degrees == (radius * cs.den) * cs.num
    IN  lon_degrees <= 180

C23_NoDoubleCount ==
  (response.kind = "report" /\ \A c \in Cells : dataset.grid[c] >= 0) =>
    response.body.total_deaths
      <= Max(response.body.pop_crater,
             Max(response.body.pop_shockwave, response.body.pop_strong_seismic))

\* C24 (the claim as stated): every "Population in zone" figure the page
\* shows for a report the server returned is max(0, outer - inner), so none
\* is negative.
C24_ZonePopulationNonNegative ==
  response.kind = "report" =>
    LET shown == population_in_zone(response.body)
    IN  \A z \in DOMAIN shown : shown[z] >= 0

\* the events of kind k the stream has sent
EventsOf(k) == {i \in 1 .. Len(stream.events) : stream.events[i] = k}

\* C25: generate_asteroids yields at most 20 records, whatever the feed
\* answers: the stream never carries more than 20 asteroid events.
C25_AtMostTwenty ==
  stream # None =>
    /\ stream.count <= MaxCount
    /\ Cardinality(EventsOf("asteroid")) <= MaxCount

\* C25 witness: 20 records have been yielded and the answer being gone
\* through still holds a hazardous asteroid.
C25_Witness ==
  /\ stream # None
  /\ stream.pc = "items"
  /\ stream.count = MaxCount
  /\ Cardinality(EventsOf("asteroid")) = MaxCount
  /\ stream.items # <<>>
  /\ Head(stream.items) = "hazardous"

\* C26: every pass of the while loop leaves current_date strictly smaller,
\* whether the request succeeded, had a status other than 200 or raised; no
\* window starts before 2015-01-01; and the stream reaches its end, also
\* when every request fails.
C26_Terminates ==
  /\ [][(stream.pc \in {"while", "items"} /\ stream'.pc = "while") =>
          stream'.current_date < stream.current_date]_vars
  /\ [](stream.pc \in {"while", "items"} =>
          (stream.current_date >= start_date =>
             batch_start(stream.current_date) >= start_date))
  /\ <>(stream.pc = "done")

\* C26 witness: the stream has ended after every request failed, the
\* windows having walked back past 2015-01-01.
C26_Witness ==
  /\ stream # None
  /\ stream.pc = "done"
  /\ stream.all_failed
  /\ stream.current_date < start_date
  /\ ~timed_out(stream.elapsed)

\* C27: the stream starts with the status event, asteroid events follow,
\* the "No asteroids found" error is sent exactly when no asteroid event
\* was, and "complete" is sent exactly once, as the last event.
C27_StreamWellOrdered ==
  stream # None =>
    LET ev == stream.events
        n == Len(ev)
    IN  /\ \A i \in 1 .. n : (ev[i] = "status") <=> (i = 1)
        /\ \A i \in 1 .. n : ev[i] = "complete" => (i = n /\ stream.pc = "done")
        /\ \A i \in 1 .. n :
             ev[i] = "error" =>
               /\ EventsOf("asteroid") = {}
               /\ i = 2
               /\ \A j \in 1 .. n : ev[j] = "error" => j = i
        /\ stream.pc = "done" =>
             /\ ev[n] = "complete"
             /\ (EventsOf("error") # {}) <=> (EventsOf("asteroid") = {})
             /\ \A i \in 2 .. n - 1 : ev[i] \in {"asteroid", "error"}

\* C27 witness: a finished stream of asteroid events between the status and
\* "complete", with no error event.
C27_Witness ==
  /\ stream # None
  /\ stream.pc = "done"
  /\ Cardinality(EventsOf("asteroid")) = 2
  /\ EventsOf("error") = {}
  /\ stream.events[Len(stream.events)] = "complete"

\* C28 (the claim as stated): the impact button is enabled exactly when an
\* asteroid is selected and a location is placed, and every click on the
\* map or on an asteroid runs its handler to the end, in every view.
C28_ButtonTracksSelection ==
  page # None =>
    /\ page.sidebar.view = "list" =>
         (~page.sidebar.disabled
            <=> (page.selectedAsteroid # None /\ page.waypointLocation # None))
    /\ page.outcome # "TypeError"

\* C29 (the claim as stated): the zones a response draws are centred on the
\* location sent in its request, and sized by the asteroid sent in it.
C29_ZonesMatchRequest ==
  page # None =>
    \A g \in page.mapLayers :
      g.kind = "zones" =>
        /\ g.centre = g.sent.location
        /\ g.wind_of = g.sent.asteroid

\* C30 (the claim as stated): resetToAsteroidList leaves no zone layer, no
\* label and no target marker on the map.
C30_ResetClearsMap ==
  [][BackToAsteroidList => page'.mapLayers = {}]_vars

====
